---- MODULE Spec2Model ----
(***************************************************************************)
(* QNET path cost model (Path.py), graph reductions (Reductions.py) and    *)
(* the Monte Carlo harness (MonteCarlo.py) as one state machine.           *)
(*                                                                         *)
(* Graph objects live in a heap keyed by object name, so that copy.deepcopy*)
(* (a new object) and aliasing (the same object) are different things:     *)
(*   "Q"  the snapshot handed to the engine (the template),                *)
(*   "P"  the percolated copy made by percolate,                           *)
(*   "C"  the working copy made by purify_reduce / swap_reduce.            *)
(* Plain cost values (e, f, probabilities of a swap or a measurement) are  *)
(* fixed-point numbers with denominator One = 2^MaxExp; additive values    *)
(* (add_e, add_f) are the base-2 logarithmic levels.                       *)
(***************************************************************************)
EXTENDS Integers, Sequences, FiniteSets, TLC

VARIABLES
    heap,          \* [Obj -> graph]: every graph object alive
    pc,            \* position of the running call
    op,            \* the running top-level call and its arguments
    arg,           \* object name of the graph passed to the running reduction
    cref,          \* object name the reduction's local C is bound to
    head, tail,    \* the reduction's head and tail
    threshold,     \* the reduction's threshold argument
    cv_list,       \* purify_reduce: cv_list; swap_reduce: swap_costs
    path_counter,  \* purify_reduce: path_counter; swap_reduce: loop iterations
    extracted,     \* history: the paths the running reduction has extracted
    ret,           \* what the last finished call returned or raised
    mc             \* monte_method's locals

vars == <<heap, pc, op, arg, cref, head, tail, threshold, cv_list,
          path_counter, extracted, ret, mc>>

-----------------------------------------------------------------------------
(* Bounds of the model *)

\* precision of the fixed-point plain values: One = 2^MaxExp
MaxExp == 6
\* largest threshold a caller passes
MaxThreshold == 2
\* cap on the iterations of one extraction loop (binds only when head = tail)
MaxCount == 4
\* largest num_iters passed to monte_method
MaxIters == 2
\* largest num_steps passed to monte_method
MaxSteps == 2
\* probabilities of a percolation_range are multiples of 1/ProbDen
ProbDen == 2
\* longest node array handed to Path(...) by a direct caller
MaxPathLen == 3

-----------------------------------------------------------------------------
(* Numbers *)

RECURSIVE Pow2(_)
Pow2(n) == IF n <= 0 THEN 1 ELSE 2 * Pow2(n - 1)

One == Pow2(MaxExp)

RECURSIVE Log2Floor(_)
Log2Floor(x) == IF x <= 1 THEN 0 ELSE 1 + Log2Floor(x \div 2)

\* x * y of two fixed-point values
Mul(x, y) == (x * y) \div One

RECURSIVE PowFix(_, _)
PowFix(x, n) == IF n <= 0 THEN One ELSE Mul(x, PowFix(x, n - 1))

Min(S) == CHOOSE x \in S : \A y \in S : x <= y

RECURSIVE SeqSum(_)
SeqSum(s) == IF s = <<>> THEN 0 ELSE Head(s) + SeqSum(Tail(s))

Range(s) == {s[i] : i \in DOMAIN s}

-----------------------------------------------------------------------------
(* Cost vectors and the conversion table Qnet.conversions *)

\* the dimensions of the template cost vector Q.cost_vector
PlainDims == {"e", "f"}
\* the names that start with "add_": those of the template, and one more
\* dimension t that some channels carry
AddDims == {"add_e", "add_f", "add_t"}
AddOf == [e |-> "add_e", f |-> "add_f", t |-> "add_t"]
PlainOf == [add_e |-> "e", add_f |-> "f", add_t |-> "t"]

\* conversions[x][0]: plain -> additive
Forward(x) == MaxExp - Log2Floor(x)
\* conversions[x][1]: additive -> plain
Inverse(a) == IF a <= MaxExp THEN Pow2(MaxExp - a) ELSE 0

EmptyCV == [k \in {} |-> 0]

\* a value that is the function object conversions[x][1] itself, not a number
ConversionFn == -2

\* the cost vector of a channel or node declared with plain values
\* 2^-ae and 2^-af
MkCV(ae, af) ==
    [e |-> Inverse(ae), f |-> Inverse(af), add_e |-> ae, add_f |-> af]

-----------------------------------------------------------------------------
(* The network snapshot: a multigraph *)

Node == {"A", "B", "G1", "T", "G2", "T2"}

NodeType ==
    [A |-> "Plain", B |-> "Plain", G1 |-> "Ground", T |-> "Swapper",
     G2 |-> "Ground", T2 |-> "Swapper"]

\* the nodes of the repeater snapshots
RepeaterNodes == Node \ {"T2"}

\* node.costs of a node declared without costs
NodeCosts(n) == MkCV(0, 0)

\* swapper.swap_prob
SwapProb(n) == One \div 2

EmptyGraph == [nodes |-> {}, edges |-> {}]

KeysBetween(G, u, v) == {x.key : x \in {y \in G.edges : y.ends = {u, v}}}

\* networkx MultiGraph.new_edge_key: the first integer >= the number of
\* parallel edges that is not a key between u and v
NewEdgeKey(G, u, v) ==
    LET K == KeysBetween(G, u, v)
        n == Cardinality(K)
    IN  Min({k \in n .. (2 * n) : k \notin K})

\* Qnet.add_qchan(edge=(u, v), **cv)
AddQchan(G, u, v, cv) ==
    [G EXCEPT !.edges =
        @ \cup {[ends |-> {u, v}, key |-> NewEdgeKey(G, u, v), cv |-> cv]}]

\* networkx remove_edge(u, v, key): "ok", or NetworkXError when there is no
\* such edge
RemoveEdge(G, u, v, key) ==
    IF key \in KeysBetween(G, u, v)
    THEN [exc |-> "ok",
          g |-> [G EXCEPT !.edges =
                    {x \in @ : ~(x.ends = {u, v} /\ x.key = key)}]]
    ELSE [exc |-> "NetworkXError", g |-> G]

\* networkx remove_nodes_from: the nodes and every edge at them
RemoveNodesFrom(G, kill) ==
    [nodes |-> G.nodes \ kill,
     edges |-> {x \in G.edges : x.ends \cap kill = {}}]

\* G.get_edge_data(u, v, key): the edge's cost vector, or None
GetEdgeData(G, u, v, key) ==
    LET hit == {x \in G.edges : x.ends = {u, v} /\ x.key = key}
    IN  IF hit = {} THEN [found |-> FALSE, cv |-> EmptyCV]
        ELSE [found |-> TRUE, cv |-> (CHOOSE x \in hit : TRUE).cv]

\* (u, v) in G.edges() or (v, u) in G.edges(): some edge joins u and v
InEdges(G, u, v) == \E x \in G.edges : x.ends = {u, v}

\* the channels of Sample-Graphs/simple_repeater.py (two parallel A-G1
\* channels and the repeater chain) and a direct A-B channel, as
\* (ends, add_e, add_f)
EdgeBunch ==
    << [ends |-> {"A", "G1"}, ae |-> 1, af |-> 0],
       [ends |-> {"A", "G1"}, ae |-> 0, af |-> 1],
       [ends |-> {"G1", "T"}, ae |-> 0, af |-> 0],
       [ends |-> {"T", "G2"}, ae |-> 0, af |-> 0],
       [ends |-> {"G2", "B"}, ae |-> 0, af |-> 1],
       [ends |-> {"A", "B"},  ae |-> 1, af |-> 1] >>

\* add_qchans_from: the channels of EdgeBunch with index in S, in order
RECURSIVE AddQchansFrom(_, _, _)
AddQchansFrom(G, S, i) ==
    IF i > Len(EdgeBunch) THEN G
    ELSE IF i \in S
         THEN LET b == EdgeBunch[i]
                  u == CHOOSE x \in b.ends : TRUE
                  v == CHOOSE x \in b.ends : b.ends = {u, x}
              IN  AddQchansFrom(AddQchan(G, u, v, MkCV(b.ae, b.af)), S, i + 1)
         ELSE AddQchansFrom(G, S, i + 1)

\* the snapshots handed to the engine: the repeater G1-T-G2 with any of the
\* other channels
Snapshots ==
    {AddQchansFrom([nodes |-> RepeaterNodes, edges |-> {}], S \cup {3, 4}, 1) :
        S \in SUBSET (1 .. Len(EdgeBunch))}

\* a cost vector with one more entry
WithCost(cv, dim, val) ==
    [k \in DOMAIN cv \cup {dim} |-> IF k = dim THEN val ELSE cv[k]]

\* add_qchan for every (u, v, cv) of a list, in order
RECURSIVE AddChannels(_, _)
AddChannels(G, chans) ==
    IF chans = <<>> THEN G
    ELSE AddChannels(AddQchan(G, Head(chans).u, Head(chans).v, Head(chans).cv),
                     Tail(chans))

\* a line as that of Sample-Graphs/swap_demo.py, with the two swappers next
\* to each other between two grounds
SwapperLine ==
    AddChannels([nodes |-> Node, edges |-> {}],
        << [u |-> "A", v |-> "G1", cv |-> MkCV(1, 0)],
           [u |-> "G1", v |-> "T", cv |-> MkCV(0, 0)],
           [u |-> "T", v |-> "T2", cv |-> MkCV(0, 0)],
           [u |-> "T2", v |-> "G2", cv |-> MkCV(0, 0)],
           [u |-> "G2", v |-> "B", cv |-> MkCV(0, 1)] >>)

\* channels that carry the dimension t: two parallel A-B channels with both
\* t and add_t, an A-G1 channel with add_t alone, a G1-T channel with t alone
ExtraDimension ==
    AddChannels([nodes |-> RepeaterNodes, edges |-> {}],
        << [u |-> "A", v |-> "B",
            cv |-> WithCost(WithCost(MkCV(1, 0), "add_t", 1), "t", Inverse(1))],
           [u |-> "A", v |-> "B",
            cv |-> WithCost(WithCost(MkCV(0, 1), "add_t", 2), "t", Inverse(2))],
           [u |-> "A", v |-> "G1", cv |-> WithCost(MkCV(0, 0), "add_t", 1)],
           [u |-> "G1", v |-> "T", cv |-> WithCost(MkCV(0, 0), "t", One \div 2)],
           [u |-> "T", v |-> "G2", cv |-> MkCV(0, 0)] >>)

\* the snapshots on which the cost rules are exercised
CostSnapshots == {SwapperLine, ExtraDimension}

-----------------------------------------------------------------------------
(* Paths *)

\* every sequence of distinct nodes
AllNodeSeqs ==
    UNION {{s \in [1 .. n -> Node] :
               \A i, j \in 1 .. n : i # j => s[i] # s[j]} :
           n \in 1 .. Cardinality(Node)}

\* the simple node sequences from h to t in G
NodePaths(G, h, t) ==
    {s \in AllNodeSeqs :
        /\ s[1] = h /\ s[Len(s)] = t
        /\ Range(s) \subseteq G.nodes
        /\ \A i \in 1 .. Len(s) - 1 : InEdges(G, s[i], s[i + 1])}

\* networkx has_path(G, u, v): nx.shortest_path raises NodeNotFound for a node
\* that is not in G, which has_path does not catch
HasPath(G, u, v) ==
    IF u \notin G.nodes \/ v \notin G.nodes THEN "NodeNotFound"
    ELSE IF NodePaths(G, u, v) # {} THEN "True" ELSE "False"

\* Counter.update(d): adds d's values; update(None) changes nothing
CounterUpdate(c, d) ==
    IF ~d.found THEN c
    ELSE [k \in DOMAIN c \cup DOMAIN d.cv |->
            (IF k \in DOMAIN c THEN c[k] ELSE 0)
            + (IF k \in DOMAIN d.cv THEN d.cv[k] ELSE 0)]

RECURSIVE SumCostVectors(_)
SumCostVectors(cvs) ==
    IF cvs = <<>> THEN EmptyCV
    ELSE CounterUpdate(SumCostVectors(SubSeq(cvs, 1, Len(cvs) - 1)),
                       cvs[Len(cvs)])

\* Path.get_cost_vector: ok with the vector, or the RuntimeError of a dict
\* that grows while it is iterated (an add_x whose plain x no element has)
GetCostVector(G, node_array, edge_keys) ==
    LET n == Len(node_array)
        element_cvs ==
            [i \in 1 .. (n - 1) |->
                GetEdgeData(G, node_array[i], node_array[i + 1], edge_keys[i])]
            \o [i \in 1 .. n |->
                [found |-> TRUE, cv |-> NodeCosts(node_array[i])]]
        new_cv == SumCostVectors(element_cvs)
    IN  IF \E a \in AddDims \cap DOMAIN new_cv : PlainOf[a] \notin DOMAIN new_cv
        THEN [exc |-> "RuntimeError", cv |-> EmptyCV]
        ELSE [exc |-> "ok",
              cv |-> [k \in DOMAIN new_cv |->
                        IF k \in DOMAIN AddOf /\ AddOf[k] \in DOMAIN new_cv
                        THEN Inverse(new_cv[AddOf[k]])
                        ELSE new_cv[k]]]

\* the validity test of Path.__init__: every consecutive pair is joined by
\* some edge (the chosen key is not looked at)
PathIsInGraph(G, node_array, edge_keys) ==
    \A i \in 1 .. Len(node_array) - 1 :
        InEdges(G, node_array[i], node_array[i + 1])

NoPath ==
    [exc |-> "none", node_array |-> <<>>, edge_keys |-> <<>>,
     cost_vector |-> EmptyCV]

\* Path.__init__(G, array, edge_keys): keys.given = FALSE is edge_keys=None
PathInit(G, array, keys) ==
    IF \E i \in DOMAIN array : array[i] \notin G.nodes
    THEN [NoPath EXCEPT !.exc = "AssertionError"]
    ELSE LET edge_keys == IF keys.given THEN keys.val
                          ELSE [i \in 1 .. Len(array) - 1 |-> 0]
             r == GetCostVector(G, array, edge_keys)
         IN  IF r.exc # "ok" THEN [NoPath EXCEPT !.exc = r.exc]
             ELSE IF ~PathIsInGraph(G, array, edge_keys)
             THEN [NoPath EXCEPT !.exc = "AssertionError"]
             ELSE [exc |-> "ok", node_array |-> array, edge_keys |-> edge_keys,
                   cost_vector |-> r.cv]

\* the paths QNET.best_path chooses among: the simple node sequences from h
\* to t, each with a key of an existing edge for every step
KeyedPaths(G, h, t) ==
    UNION {{[node_array |-> s, edge_keys |-> k] :
              k \in {kk \in [1 .. Len(s) - 1 -> {x.key : x \in G.edges}] :
                       \A i \in 1 .. Len(s) - 1 :
                          kk[i] \in KeysBetween(G, s[i], s[i + 1])}} :
           s \in NodePaths(G, h, t)}

PathCost(G, p) == GetCostVector(G, p.node_array, p.edge_keys).cv

\* QNET.best_path(G, h, t, dim) for dim in {"e", "f"}: the paths of greatest
\* dim; which of several equally good ones is returned is left open
BestPaths(G, h, t, dim) ==
    LET all == KeyedPaths(G, h, t)
    IN  {p \in all : \A q \in all : PathCost(G, p)[dim] >= PathCost(G, q)[dim]}

\* the exception QNET.best_path passes on when the cost vector of one of the
\* paths it compares cannot be computed ("ok": there is none)
BestPathExc(G, h, t) ==
    LET bad == {p \in KeyedPaths(G, h, t) :
                  GetCostVector(G, p.node_array, p.edge_keys).exc # "ok"}
    IN  IF bad = {} THEN "ok"
        ELSE GetCostVector(G, (CHOOSE p \in bad : TRUE).node_array,
                           (CHOOSE p \in bad : TRUE).edge_keys).exc

\* Path.remove_edges applied to graph G
RECURSIVE RemoveEdgesFrom(_, _, _, _)
RemoveEdgesFrom(G, node_array, edge_keys, i) ==
    IF i > Len(node_array) - 1 THEN [exc |-> "ok", g |-> G]
    ELSE LET r == RemoveEdge(G, node_array[i], node_array[i + 1], edge_keys[i])
         IN  IF r.exc # "ok" THEN r
             ELSE RemoveEdgesFrom(r.g, node_array, edge_keys, i + 1)

\* remove_edges that stops after the path's first edge
RemoveFirstEdge(G, p) ==
    IF Len(p.node_array) < 2 THEN [exc |-> "ok", g |-> G]
    ELSE RemoveEdge(G, p.node_array[1], p.node_array[2], p.edge_keys[1])

RemoveEdges(G, p) == RemoveEdgesFrom(G, p.node_array, p.edge_keys, 1)

\* Path.swap_path's walk: ground_switch, swapper ("None" or the node held)
\* and the product of swap_costs after the nodes node_array[1..i]
RECURSIVE SwapWalk(_, _)
SwapWalk(node_array, i) ==
    IF i = 0
    THEN [ground_switch |-> FALSE, swapper |-> "None", swap_cost |-> One]
    ELSE LET s == SwapWalk(node_array, i - 1)
             node == node_array[i]
             hit == /\ NodeType[node] = "Ground"
                    /\ s.ground_switch
                    /\ s.swapper # "None"
             s1 == [ground_switch |->
                        s.ground_switch \/ NodeType[node] = "Ground",
                    swapper |-> IF hit THEN "None" ELSE s.swapper,
                    swap_cost |->
                        IF hit THEN Mul(s.swap_cost, SwapProb(s.swapper))
                        ELSE s.swap_cost]
         IN  IF NodeType[node] = "Swapper" /\ s1.ground_switch
             THEN [s1 EXCEPT !.swapper = node]
             ELSE s1

\* Path.swap_path
SwapPath(p, cost_vector) ==
    [cost_vector EXCEPT
        !["e"] = Mul(@, SwapWalk(p.node_array, Len(p.node_array)).swap_cost)]

-----------------------------------------------------------------------------
(* Calls, results, and the graph objects *)

Obj == {"Q", "P", "C"}

\* C = Q instead of a copy: the local name is bound to the object passed in
SameObject(src, dst) == src

\* copy.deepcopy(heap[src]) bound to a local name: the new object dst
DeepCopy(src, dst) == dst

NoThreshold == [given |-> FALSE, isint |-> TRUE, val |-> 0]

\* threshold arguments: None, an integer, or a non-integer number (val is
\* then its integer part)
ThresholdInputs ==
    {NoThreshold}
    \cup {[given |-> TRUE, isint |-> b, val |-> v] :
            b \in BOOLEAN, v \in -1 .. MaxThreshold}

NoKeys == [given |-> FALSE, val |-> <<>>]

\* percolation_range arguments: None, or bounds in units of 1/ProbDen
NoRange == [given |-> FALSE, lo |-> 0, hi |-> ProbDen]

\* the running call: its name and the arguments it was given
NoOp ==
    [name |-> "none", array |-> <<>>, keys |-> NoKeys, th |-> NoThreshold,
     range |-> NoRange]

Ret(kind, exc, obj, path) ==
    [kind |-> kind, exc |-> exc, obj |-> obj, path |-> path]

NoRet == Ret("none", "ok", "Q", NoPath)

\* None, None of reduce_graph
NotConnected == [none |-> TRUE, g |-> EmptyGraph]

\* monte_method's locals; i is generate_graphs' loop index, trials counts the
\* percolations made for the probability in hand (history)
NoMC ==
    [num_iters |-> 0, num_steps |-> 0, prob_list |-> <<>>, index |-> 0,
     i |-> 0, trials |-> 0,
     sel |-> [islist |-> FALSE, val |-> <<>>], reduction |-> "none",
     P |-> "Q", pairs |-> <<>>, graph_list |-> <<>>, minor |-> <<>>,
     main |-> <<>>]

Init ==
    /\ heap \in {[o \in Obj |-> IF o = "Q" THEN g ELSE EmptyGraph] :
                    g \in Snapshots}
    /\ pc = "idle"
    /\ op = NoOp
    /\ arg = "Q"
    /\ cref = "Q"
    /\ head = "A"
    /\ tail = "A"
    /\ threshold = NoThreshold
    /\ cv_list = <<>>
    /\ path_counter = 0
    /\ extracted = <<>>
    /\ ret = NoRet
    /\ mc = NoMC

-----------------------------------------------------------------------------
(* Path(G, array, edge_keys) called on the snapshot *)

PathArrays == UNION {[1 .. n -> Node] : n \in 1 .. MaxPathLen}

KeyInputs(array) ==
    {NoKeys}
    \cup {[given |-> TRUE, val |-> k] : k \in [1 .. Len(array) - 1 -> 0 .. 1]}

CallPath(array, keys) ==
    /\ pc = "idle"
    /\ op' = [NoOp EXCEPT !.name = "Path", !.array = array, !.keys = keys]
    /\ LET p == PathInit(heap["Q"], array, keys)
       IN  IF p.exc = "ok"
           THEN ret' = Ret("path", "ok", "Q", p)
           ELSE ret' = Ret("raise", p.exc, "Q", NoPath)
    /\ pc' = "done"
    /\ UNCHANGED <<heap, arg, cref, head, tail, threshold, cv_list,
                   path_counter, extracted, mc>>

\* Path(C, array, edge_keys).remove_edges() on a copy C of the snapshot, as
\* the reductions call it on their working copy; the path object is kept in
\* ret, the exception of remove_edge leaves the edges removed so far removed
CallRemoveEdges(array, keys) ==
    /\ pc = "idle"
    /\ op' = [NoOp EXCEPT !.name = "remove_edges", !.array = array,
                          !.keys = keys]
    /\ LET c == DeepCopy("Q", "C")
           p == PathInit(heap["Q"], array, keys)
           r == RemoveEdges(heap["Q"], p)
       IN  /\ cref' = c
           /\ IF p.exc # "ok"
              THEN /\ heap' = [heap EXCEPT ![c] = heap["Q"]]
                   /\ ret' = Ret("raise", p.exc, c, NoPath)
              ELSE /\ heap' = [heap EXCEPT ![c] = r.g]
                   /\ ret' = Ret(IF r.exc = "ok" THEN "path" ELSE "raise",
                                 r.exc, c, p)
    /\ pc' = "done"
    /\ UNCHANGED <<arg, head, tail, threshold, cv_list, path_counter,
                   extracted, mc>>

-----------------------------------------------------------------------------
(* How a finished reduction hands its result on: to the direct caller, or   *)
(* to reduce_graph and generate_graphs when monte_method is running         *)

\* generate_graphs with "if R is not None:" in force: a trial that ended
\* not connected is left out of graph_list
CollectConnected(R, pairs) ==
    LET gl == IF R.none THEN mc.graph_list
              ELSE Append(mc.graph_list, [R |-> R, pairs |-> pairs])
    IN  /\ mc' = [mc EXCEPT !.graph_list = gl, !.i = @ + 1]
        /\ pc' = IF mc.i + 1 < mc.num_iters THEN "mc_percolate"
                 ELSE IF gl = <<>> THEN "mc_aggregate" ELSE "mc_score"
        /\ UNCHANGED ret

\* generate_graphs that returns after its first trial
CollectOneTrial(R, pairs) ==
    LET gl == Append(mc.graph_list, [R |-> R, pairs |-> pairs])
    IN  /\ mc' = [mc EXCEPT !.graph_list = gl, !.i = @ + 1]
        /\ pc' = "mc_score"
        /\ UNCHANGED ret

\* generate_graphs: graph_list.append((R, pairs)), then the next trial, or
\* on to the scoring loop of monte_method (mc.i is the loop's i)
Collect(R, pairs) ==
    LET gl == Append(mc.graph_list, [R |-> R, pairs |-> pairs])
    IN  /\ mc' = [mc EXCEPT !.graph_list = gl, !.i = @ + 1]
        /\ pc' = IF mc.i + 1 < mc.num_iters THEN "mc_percolate"
                 ELSE IF gl = <<>> THEN "mc_aggregate" ELSE "mc_score"
        /\ UNCHANGED ret

Raise(exc) ==
    /\ pc' = "raised"
    /\ ret' = Ret("raise", exc, "Q", NoPath)
    /\ UNCHANGED mc

\* return C
ReturnGraph(g, obj) ==
    IF op.name = "monte_method"
    THEN Collect([none |-> FALSE, g |-> g], mc.pairs)
    ELSE /\ pc' = "done"
         /\ ret' = Ret("graph", "ok", obj, NoPath)
         /\ UNCHANGED mc

-----------------------------------------------------------------------------
(* purify_reduce and swap_reduce *)

\* the assertions without isinstance(threshold, int)
ThresholdPositive(th) == ~th.given \/ th.val > 0

\* the threshold assertions of both reductions
ThresholdOk(th) == ~th.given \/ (th.isint /\ th.val > 0)

\* lines up to the loop: the assertions, C = copy.deepcopy(Q), getNode
StartReduction(kind, src, h, t, th) ==
    IF ~ThresholdOk(th)
    THEN /\ Raise("AssertionError")
         /\ UNCHANGED <<heap, arg, cref, head, tail, threshold, cv_list,
                        path_counter, extracted>>
    ELSE LET c == DeepCopy(src, "C")
         IN  /\ heap' = [heap EXCEPT ![c] = heap[src]]
             /\ cref' = c
             /\ arg' = src
             /\ head' = h
             /\ tail' = t
             /\ threshold' = th
             /\ cv_list' = <<>>
             /\ path_counter' = 0
             /\ extracted' = <<>>
             /\ pc' = IF kind = "purify" THEN "purify_loop" ELSE "swap_loop"
             /\ UNCHANGED <<ret, mc>>

CallPurify(h, t, th) ==
    /\ pc = "idle"
    /\ op' = [NoOp EXCEPT !.name = "purify_reduce", !.th = th]
    /\ StartReduction("purify", "Q", h, t, th)

CallSwap(h, t, th) ==
    /\ pc = "idle"
    /\ op' = [NoOp EXCEPT !.name = "swap_reduce", !.th = th]
    /\ StartReduction("swap", "Q", h, t, th)

\* the break of purify_reduce's loop
PurifyBreak == threshold.given /\ path_counter > threshold.val

\* one iteration of purify_reduce's loop
PurifyIter ==
    /\ pc = "purify_loop"
    /\ path_counter < MaxCount
    /\ HasPath(heap[cref], head, tail) = "True"
    /\ ~PurifyBreak
    /\ IF BestPathExc(heap[cref], head, tail) # "ok"
       THEN /\ Raise(BestPathExc(heap[cref], head, tail))
            /\ UNCHANGED <<heap, cv_list, path_counter, extracted>>
       ELSE /\ \E path \in BestPaths(heap[cref], head, tail, "f") :
                  LET r == RemoveEdges(heap[cref], path)
                  IN  /\ cv_list' = Append(cv_list, PathCost(heap[cref], path))
                      /\ heap' = [heap EXCEPT ![cref] = r.g]
                      /\ path_counter' = path_counter + 1
                      /\ extracted' = Append(extracted, path)
            /\ UNCHANGED <<pc, ret, mc>>
    /\ UNCHANGED <<op, arg, cref, head, tail, threshold>>

\* QNET.fidTransform(f1, f2)
FidTransform(f1, f2) ==
    (f1 * f2 * One) \div (f1 * f2 + (One - f1) * (One - f2))

\* the last fidelity alone, nothing combined
LastFid(f_list) == f_list[Len(f_list)]

\* functools.reduce(QNET.fidTransform, f_list) on a list that is not empty
RECURSIVE ReduceFid(_)
ReduceFid(f_list) ==
    IF Len(f_list) = 1 THEN f_list[1]
    ELSE FidTransform(ReduceFid(SubSeq(f_list, 1, Len(f_list) - 1)),
                      f_list[Len(f_list)])

\* prob, the default of purify_reduce
MeasureProb == One \div 2

\* the penalty with one pair of projections for every path
PurifyPenaltyPerPath(counter) == PowFix(MeasureProb, 2 * counter)

\* prob ** (2 * (path_counter - 1))
PurifyPenalty(counter) == PowFix(MeasureProb, 2 * (counter - 1))

\* new_cv of purify_reduce, for a cv_list that is not empty: f, add_f, e and
\* add_e, then for every other add_x of sum_cv the sum as add_x and, as x,
\* conversions[x][1] (the function, which the code does not call)
PurifiedCV(cvs, counter) ==
    LET pur_f == ReduceFid([i \in DOMAIN cvs |-> cvs[i]["f"]])
        pur_e == Mul(Min({cvs[i]["e"] : i \in DOMAIN cvs}),
                     PurifyPenalty(counter))
        new_cv == [f |-> pur_f, add_f |-> Forward(pur_f),
                   e |-> pur_e, add_e |-> Forward(pur_e)]
        sum_cv == SumCostVectors([i \in DOMAIN cvs |->
                                    [found |-> TRUE, cv |-> cvs[i]]])
        others == (AddDims \cap DOMAIN sum_cv) \ DOMAIN new_cv
    IN  [k \in DOMAIN new_cv \cup others \cup {PlainOf[a] : a \in others} |->
            IF k \in others THEN sum_cv[k]
            ELSE IF k \in DOMAIN new_cv THEN new_cv[k]
            ELSE ConversionFn]

\* after purify_reduce's loop: the new cost vector, the new channel, return
PurifyFinish ==
    /\ pc = "purify_loop"
    /\ HasPath(heap[cref], head, tail) # "True" \/ PurifyBreak
    /\ IF HasPath(heap[cref], head, tail) = "NodeNotFound"
       THEN Raise("NodeNotFound") /\ UNCHANGED heap
       ELSE IF cv_list = <<>>
       THEN Raise("TypeError") /\ UNCHANGED heap
       ELSE LET g == AddQchan(heap[cref], head, tail,
                              PurifiedCV(cv_list, path_counter))
            IN  /\ heap' = [heap EXCEPT ![cref] = g]
                /\ ReturnGraph(g, cref)
    /\ UNCHANGED <<op, arg, cref, head, tail, threshold, cv_list,
                   path_counter, extracted>>

\* one iteration of swap_reduce's loop
SwapIter ==
    /\ pc = "swap_loop"
    /\ path_counter < MaxCount
    /\ HasPath(heap[cref], head, tail) = "True"
    /\ IF BestPathExc(heap[cref], head, tail) # "ok"
       THEN /\ Raise(BestPathExc(heap[cref], head, tail))
            /\ UNCHANGED <<heap, cv_list, path_counter, extracted>>
       ELSE /\ \E path \in BestPaths(heap[cref], head, tail, "e") :
                  LET r == RemoveEdges(heap[cref], path)
                  IN  /\ cv_list' =
                            Append(cv_list,
                                   SwapPath(path, PathCost(heap[cref], path)))
                      /\ heap' = [heap EXCEPT ![cref] = r.g]
                      /\ path_counter' = path_counter + 1
                      /\ extracted' = Append(extracted, path)
            /\ UNCHANGED <<pc, ret, mc>>
    /\ UNCHANGED <<op, arg, cref, head, tail, threshold>>

\* a single channel, for the first swapped path only
AddFirstQchan(G, u, v, cvs) ==
    IF cvs = <<>> THEN G ELSE AddQchan(G, u, v, Head(cvs))

RECURSIVE AddQchans(_, _, _, _)
AddQchans(G, u, v, cvs) ==
    IF cvs = <<>> THEN G
    ELSE AddQchans(AddQchan(G, u, v, Head(cvs)), u, v, Tail(cvs))

\* after swap_reduce's loop: one channel per swapped path, return
SwapFinish ==
    /\ pc = "swap_loop"
    /\ HasPath(heap[cref], head, tail) # "True"
    /\ IF HasPath(heap[cref], head, tail) = "NodeNotFound"
       THEN Raise("NodeNotFound") /\ UNCHANGED heap
       ELSE LET g == AddQchans(heap[cref], head, tail, cv_list)
            IN  /\ heap' = [heap EXCEPT ![cref] = g]
                /\ ReturnGraph(g, cref)
    /\ UNCHANGED <<op, arg, cref, head, tail, threshold, cv_list,
                   path_counter, extracted>>

-----------------------------------------------------------------------------
(* MonteCarlo.py: percolate, reduce_graph, generate_graphs, data_method,    *)
(* monte_method                                                             *)

\* what pair_method(C) returns: one pair (a tuple) or a list of pairs
PairSelectors ==
    {[islist |-> FALSE, val |-> <<"A", "B">>],
     [islist |-> TRUE, val |-> << <<"A", "B">>, <<"G1", "G2">> >>],
     [islist |-> TRUE, val |-> << <<"A", "B">>, <<"A", "G1">> >>]}

\* if type(pairs) is not list: pairs = [pairs]
PairList(sel) == IF sel.islist THEN sel.val ELSE <<sel.val>>

\* ranges with a bound below 0 or above 1, ranges inside [0, 1] in rising
\* and in falling order, and a range that falls from 0 to below 0
RangeInputs ==
    {NoRange}
    \cup {[given |-> TRUE, lo |-> lo, hi |-> hi] :
            lo \in -1 .. 1, hi \in ProbDen .. (ProbDen + 1)}
    \cup {[given |-> TRUE, lo |-> ProbDen, hi |-> 0],
          [given |-> TRUE, lo |-> 0, hi |-> -1]}

\* np.linspace(lo, hi, n, endpoint=False)
LinspaceOpen(lo, hi, n) ==
    [i \in 1 .. n |->
        [num |-> lo * n + (i - 1) * (hi - lo), den |-> ProbDen * n]]

\* np.linspace(lo, hi, n), each point an exact fraction num/den
Linspace(lo, hi, n) ==
    IF n = 1 THEN << [num |-> lo, den |-> ProbDen] >>
    ELSE [i \in 1 .. n |->
            [num |-> lo * (n - 1) + (i - 1) * (hi - lo),
             den |-> ProbDen * (n - 1)]]

\* NaN of a pandas result
NaN == -1

\* monte_method up to its loop over prob_list
CallMonte(num_iters, num_steps, range, sel, reduction) ==
    /\ pc = "idle"
    /\ op' = [NoOp EXCEPT !.name = "monte_method", !.range = range]
    /\ IF range.given /\ ~(range.lo >= 0 /\ range.hi <= ProbDen)
       THEN Raise("AssertionError")
       ELSE LET prob_list == Linspace(range.lo, range.hi, num_steps)
            IN  /\ mc' = [NoMC EXCEPT
                            !.num_iters = num_iters,
                            !.num_steps = num_steps,
                            !.prob_list = prob_list,
                            !.index = 1,
                            !.sel = sel,
                            !.reduction = reduction,
                            !.main = [i \in 1 .. num_steps |->
                                        [p |-> prob_list[i], filled |-> FALSE,
                                         mean |-> EmptyCV, std |-> EmptyCV]]]
                /\ pc' = "mc_percolate"
                /\ UNCHANGED ret
    /\ UNCHANGED <<heap, arg, cref, head, tail, threshold, cv_list,
                   path_counter, extracted>>

\* the nodes percolate may put on kill_list
Eligible(G, pairs) ==
    {node \in G.nodes : \E i \in DOMAIN pairs : node \notin Range(pairs[i])}

\* xd <= prob in place of xd < prob: a draw of 0 kills at prob = 0
CanKillAtZero(prob) == prob.num >= 0

\* random.uniform(0, 1) < prob can come out TRUE, can come out FALSE
CanKill(prob) == prob.num > 0
CanSpare(prob) == prob.num < prob.den

\* percolate(Q, prob, pair_method)
Percolate ==
    /\ pc = "mc_percolate"
    /\ LET c == DeepCopy("Q", "P")
           pairs == PairList(mc.sel)
           prob == mc.prob_list[mc.index]
           eligible == Eligible(heap["Q"], pairs)
       IN  \E kill_list \in SUBSET eligible :
              /\ kill_list # {} => CanKill(prob)
              /\ kill_list # eligible => CanSpare(prob)
              /\ heap' = [heap EXCEPT
                            ![c] = RemoveNodesFrom(heap["Q"], kill_list)]
              /\ mc' = [mc EXCEPT !.P = c, !.pairs = pairs,
                                    !.trials = @ + 1]
    /\ pc' = "mc_check"
    /\ UNCHANGED <<op, arg, cref, head, tail, threshold, cv_list,
                   path_counter, extracted, ret>>

\* the first pair of reduce_graph's loop for which has_path is not True
\* (0: there is none)
FirstBad(G, pairs) ==
    LET bad == {i \in DOMAIN pairs :
                  HasPath(G, pairs[i][1], pairs[i][2]) # "True"}
    IN  IF bad = {} THEN 0 ELSE Min(bad)

\* reduce_graph after percolate, up to the call of reduction_method
ReduceGraph ==
    /\ pc = "mc_check"
    /\ LET G == heap[mc.P]
           i == FirstBad(G, mc.pairs)
       IN  IF i # 0
           THEN /\ IF HasPath(G, mc.pairs[i][1], mc.pairs[i][2]) = "False"
                   THEN Collect(NotConnected, <<>>)
                   ELSE Raise("NodeNotFound")
                /\ UNCHANGED <<heap, arg, cref, head, tail, threshold,
                               cv_list, path_counter, extracted>>
           ELSE StartReduction(mc.reduction, mc.P, mc.pairs[1][1],
                               mc.pairs[1][2], NoThreshold)
    /\ UNCHANGED op

\* QNET.cv_strip_add
CvStripAdd(cv) == [k \in DOMAIN cv \ AddDims |-> cv[k]]

\* the score data_method returns for a trial without a reduced graph
FloorScore == [e |-> 0, f |-> One \div 2]

\* df.mean() over the rows of a DataFrame, column by column
MeanOf(rows) ==
    [k \in PlainDims |->
        IF rows = <<>> THEN NaN
        ELSE SeqSum([i \in DOMAIN rows |-> rows[i][k]]) \div Len(rows)]

RECURSIVE Isqrt(_, _)
Isqrt(x, r) == IF (r + 1) * (r + 1) > x THEN r ELSE Isqrt(x, r + 1)

\* df.sem(): the unbiased standard error, NaN for a single row
SemOf(rows) ==
    LET n == Len(rows)
        m == MeanOf(rows)
    IN  [k \in PlainDims |->
            IF n <= 1 THEN NaN
            ELSE Isqrt((SeqSum([i \in DOMAIN rows |->
                                   (rows[i][k] - m[k]) * (rows[i][k] - m[k])])
                        \div (n - 1)) \div n, 0)]

\* the cost vectors data_method can collect for the pairs, one per pair
PairCosts(G, pairs) ==
    {s \in [DOMAIN pairs ->
              UNION {{CvStripAdd(PathCost(G, p)) :
                        p \in BestPaths(G, pairs[i][1], pairs[i][2], "f")} :
                     i \in DOMAIN pairs}] :
        \A i \in DOMAIN pairs :
           \E p \in BestPaths(G, pairs[i][1], pairs[i][2], "f") :
              s[i] = CvStripAdd(PathCost(G, p))}

\* one pass of monte_method's loop over graph_list: data_method and
\* minor.append
Score ==
    /\ pc = "mc_score"
    /\ LET item == mc.graph_list[Len(mc.minor) + 1]
           next == IF Len(mc.minor) + 1 = Len(mc.graph_list)
                   THEN "mc_aggregate" ELSE "mc_score"
       IN  IF item.R.none \/ item.pairs = <<>>
           THEN /\ mc' = [mc EXCEPT !.minor = Append(@, FloorScore)]
                /\ pc' = next
                /\ UNCHANGED ret
           ELSE IF \E i \in DOMAIN item.pairs :
                      BestPaths(item.R.g, item.pairs[i][1],
                                item.pairs[i][2], "f") = {}
           THEN Raise("NoPath")
           ELSE \E s \in PairCosts(item.R.g, item.pairs) :
                   /\ mc' = [mc EXCEPT !.minor = Append(@, MeanOf(s))]
                   /\ pc' = next
                   /\ UNCHANGED ret
    /\ UNCHANGED <<heap, op, arg, cref, head, tail, threshold, cv_list,
                   path_counter, extracted>>

\* the end of one pass of monte_method's loop over prob_list: mean and
\* standard error into main, then the next probability or return main
Aggregate ==
    /\ pc = "mc_aggregate"
    /\ LET main == [mc.main EXCEPT
                      ![mc.index] = [@ EXCEPT !.filled = TRUE,
                                              !.mean = MeanOf(mc.minor),
                                              !.std = SemOf(mc.minor)]]
       IN  /\ mc' = [mc EXCEPT !.main = main, !.index = @ + 1,
                               !.graph_list = <<>>, !.minor = <<>>, !.i = 0,
                               !.trials = 0]
           /\ IF mc.index < mc.num_steps
              THEN pc' = "mc_percolate" /\ UNCHANGED ret
              ELSE pc' = "done" /\ ret' = Ret("table", "ok", "Q", NoPath)
    /\ UNCHANGED <<heap, op, arg, cref, head, tail, threshold, cv_list,
                   path_counter, extracted>>

\* the caller takes the result; the locals of the finished call are gone
Return ==
    /\ pc \in {"done", "raised"}
    /\ pc' = "idle"
    /\ heap' = [o \in Obj |-> IF o = "Q" THEN heap["Q"] ELSE EmptyGraph]
    /\ op' = NoOp
    /\ arg' = "Q"
    /\ cref' = "Q"
    /\ head' = "A"
    /\ tail' = "A"
    /\ threshold' = NoThreshold
    /\ cv_list' = <<>>
    /\ path_counter' = 0
    /\ extracted' = <<>>
    /\ ret' = NoRet
    /\ mc' = NoMC

-----------------------------------------------------------------------------

NextPath ==
    \/ \E array \in PathArrays : \E keys \in KeyInputs(array) :
          CallPath(array, keys)
    \/ \E array \in PathArrays : \E keys \in KeyInputs(array) :
          CallRemoveEdges(array, keys)
    \/ Return

NextReduce ==
    \/ \E h \in heap["Q"].nodes, t \in heap["Q"].nodes :
          \E th \in ThresholdInputs : CallPurify(h, t, th)
    \/ \E h \in heap["Q"].nodes, t \in heap["Q"].nodes :
          \E th \in ThresholdInputs : CallSwap(h, t, th)
    \/ PurifyIter
    \/ PurifyFinish
    \/ SwapIter
    \/ SwapFinish
    \/ Return

NextMonte ==
    \/ \E num_iters \in 1 .. MaxIters, num_steps \in 1 .. MaxSteps :
          \E range \in RangeInputs, sel \in PairSelectors :
             \E reduction \in {"purify", "swap"} :
                CallMonte(num_iters, num_steps, range, sel, reduction)
    \/ Percolate
    \/ ReduceGraph
    \/ PurifyIter
    \/ PurifyFinish
    \/ SwapIter
    \/ SwapFinish
    \/ Score
    \/ Aggregate
    \/ Return

Next == NextPath \/ NextReduce \/ NextMonte

\* every call of the engine, in any order
Spec == Init /\ [][Next]_vars

\* Path(...) alone
SpecPath == Init /\ [][NextPath]_vars

\* purify_reduce and swap_reduce called on the snapshot
SpecReduce == Init /\ [][NextReduce]_vars

\* monte_method and everything it calls
SpecMonte == Init /\ [][NextMonte]_vars

\* the reductions, a started reduction running on: the interpreter goes on
\* with the loop and with the lines after it
SpecReduceLive ==
    /\ Init
    /\ [][NextReduce]_vars
    /\ WF_vars(PurifyIter \/ PurifyFinish \/ SwapIter \/ SwapFinish)

\* Path(...), purify_reduce and swap_reduce on the snapshots that exercise
\* the cost rules
InitCosts ==
    /\ heap \in {[o \in Obj |-> IF o = "Q" THEN g ELSE EmptyGraph] :
                    g \in CostSnapshots}
    /\ pc = "idle"
    /\ op = NoOp
    /\ arg = "Q"
    /\ cref = "Q"
    /\ head = "A"
    /\ tail = "A"
    /\ threshold = NoThreshold
    /\ cv_list = <<>>
    /\ path_counter = 0
    /\ extracted = <<>>
    /\ ret = NoRet
    /\ mc = NoMC

NextCosts == NextPath \/ NextReduce

SpecCosts == InitCosts /\ [][NextCosts]_vars

-----------------------------------------------------------------------------
(* Properties *)

\* the edges of G that path p traverses
PathEdges(G, p) ==
    {x \in G.edges :
        \E i \in 1 .. Len(p.node_array) - 1 :
           /\ x.ends = {p.node_array[i], p.node_array[i + 1]}
           /\ x.key = p.edge_keys[i]}

\* the edges of G on a path the running reduction has extracted
Gone(G) == UNION {PathEdges(G, extracted[i]) : i \in DOMAIN extracted}

PurifyReturned ==
    pc = "done" /\ op.name = "purify_reduce" /\ ret.kind = "graph"

SwapReturned ==
    pc = "done" /\ op.name = "swap_reduce" /\ ret.kind = "graph"

\* C1 as stated: the graph purify_reduce returns is the input snapshot with
\* exactly one more edge, every edge of the input still present.
C1_InputPlusOneEdge ==
    PurifyReturned =>
        LET R == heap[ret.obj]
            I == heap[arg]
        IN  /\ R.nodes = I.nodes
            /\ I.edges \subseteq R.edges
            /\ Cardinality(R.edges \ I.edges) = 1

\* C1 amended: the graph purify_reduce returns is the working copy, that is
\* the input snapshot without the edges of the extracted paths, plus exactly
\* one more edge, which joins head and tail; every edge of the input that is
\* on no extracted path is still present.
C1_WorkingCopyPlusOneEdge ==
    PurifyReturned =>
        LET R == heap[ret.obj]
            I == heap[arg]
            base == I.edges \ Gone(I)
        IN  /\ R.nodes = I.nodes
            /\ base \subseteq R.edges
            /\ Cardinality(R.edges \ base) = 1
            /\ \A x \in R.edges \ base : x.ends = {head, tail}

\* purify_reduce has returned after extracting two paths, one of them of
\* several edges
C1_Witness ==
    /\ PurifyReturned
    /\ Len(extracted) >= 2
    /\ \E i \in DOMAIN extracted : Len(extracted[i].node_array) >= 3
    /\ ~(heap[arg].edges \subseteq heap[ret.obj].edges)

\* C2: called with head and tail not connected, purify_reduce returns the
\* failure sentinel and raises nothing (no fold over an empty fidelity list).
C2_DisconnectedGivesSentinel ==
    (/\ op.name = "purify_reduce"
     /\ pc \in {"done", "raised"}
     /\ HasPath(heap[arg], head, tail) = "False")
    => (pc = "done" /\ ret.kind = "sentinel" /\ ret.exc # "TypeError")

\* C3: with a threshold t, purify_reduce has recorded at most t cost vectors
\* (and counted at most t paths) when its loop is over (stated for head and
\* tail distinct, so that every path counted has an edge).
C3_AtMostThresholdPurified ==
    (PurifyReturned /\ threshold.given /\ head # tail)
    => (Len(cv_list) <= threshold.val /\ path_counter <= threshold.val)

\* C4: with a threshold t, swap_reduce extracts at most t paths and inserts
\* at most t new head-tail edges (stated for head and tail distinct).
C4_AtMostThresholdSwapped ==
    (SwapReturned /\ threshold.given /\ head # tail)
    => /\ Len(extracted) <= threshold.val
       /\ Cardinality(heap[ret.obj].edges \ (heap[arg].edges \ Gone(heap[arg])))
            <= threshold.val

C5_State ==
    SwapReturned =>
        LET R == heap[ret.obj]
            I == heap[arg]
            base == I.edges \ Gone(I)
            new == R.edges \ base
            n == Len(extracted)
        IN  /\ R.nodes = I.nodes
            /\ base \subseteq R.edges
            /\ n = path_counter
            /\ Cardinality(new) = n
            /\ \A x \in new : x.ends = {head, tail}
            /\ \E b \in [1 .. n -> new] :
                  /\ \A i, j \in 1 .. n : i # j => b[i] # b[j]
                  /\ \A i \in 1 .. n :
                        b[i].cv = SwapPath(extracted[i],
                                           PathCost(I, extracted[i]))

\* C5: the graph swap_reduce returns has exactly one new head-tail edge per
\* path its loop extracted, the i-th carrying the swapped cost vector of the
\* i-th path alone; as many edges are added as the loop made iterations; and
\* the snapshot passed in is not changed while swap_reduce runs.
C5_OneEdgePerSwappedPath ==
    /\ []C5_State
    /\ [][pc = "swap_loop" => (heap'[arg] = heap[arg])]_vars

\* swap_reduce has returned after swapping two paths, one of them through a
\* swapper between two grounds
C5_Witness ==
    /\ SwapReturned
    /\ Len(extracted) >= 2
    /\ \E i \in DOMAIN extracted :
          cv_list[i]["e"] # PathCost(heap[arg], extracted[i])["e"]

\* C6: every node of every selected pair is in the percolated copy.
C6_PairNodesSurvive ==
    pc = "mc_check" =>
        \A i \in DOMAIN mc.pairs : Range(mc.pairs[i]) \subseteq heap[mc.P].nodes

\* C7: reduce_graph returns the sentinel, raising nothing and calling no
\* reduction, whenever some selected pair has no path in the percolated copy;
\* otherwise it calls the reduction with the first pair as head and tail on
\* the percolated copy.
C7_ReduceGraphSentinelOrReduction ==
    [][pc = "mc_check" =>
        LET G == heap[mc.P]
        IN  IF \E i \in DOMAIN mc.pairs :
                  HasPath(G, mc.pairs[i][1], mc.pairs[i][2]) # "True"
            THEN /\ pc' \notin {"raised", "purify_loop", "swap_loop"}
                 /\ mc'.graph_list =
                       Append(mc.graph_list,
                              [R |-> NotConnected, pairs |-> <<>>])
            ELSE /\ pc' \in {"purify_loop", "swap_loop"}
                 /\ head' = mc.pairs[1][1]
                 /\ tail' = mc.pairs[1][2]
                 /\ arg' = mc.P
      ]_vars

\* C8: for every probability, num_iters trials are run and num_iters scores
\* enter the aggregation; a trial that ended not connected is kept, and its
\* score is the floor score (e = 0, f = 0.5).
C8_EveryTrialScored ==
    /\ Len(mc.minor) <= Len(mc.graph_list)
    /\ pc \in {"mc_score", "mc_aggregate"} =>
          /\ mc.trials = mc.num_iters
          /\ Len(mc.graph_list) = mc.num_iters
    /\ pc = "mc_aggregate" => Len(mc.minor) = mc.num_iters
    /\ \A k \in DOMAIN mc.minor :
          mc.graph_list[k].R.none => mc.minor[k] = FloorScore

\* a probability is about to be aggregated over two trials, one that ended
\* not connected and one that was reduced
C8_Witness ==
    /\ pc = "mc_aggregate"
    /\ \E j, k \in DOMAIN mc.minor :
          mc.graph_list[j].R.none /\ ~mc.graph_list[k].R.none

\* C9: the snapshot handed to the engine never changes; the graph handed to
\* a reduction does not change while the reduction runs; and the percolated
\* copy of every trial is the snapshot less the nodes this trial removed,
\* whatever earlier trials removed.
C9_SnapshotNeverMutated ==
    /\ [][(heap'["Q"] = heap["Q"])]_vars
    /\ [][(pc \in {"purify_loop", "swap_loop"}) => (heap'[arg] = heap[arg])]_vars
    /\ [](pc = "mc_check" =>
            heap[mc.P] = RemoveNodesFrom(heap["Q"],
                             heap["Q"].nodes \ heap[mc.P].nodes))

\* a trial has been percolated after an earlier trial's reduction removed
\* nodes and edges from its own copies
C9_Witness ==
    /\ pc = "mc_check"
    /\ mc.graph_list # <<>>
    /\ ~mc.graph_list[1].R.none
    /\ mc.graph_list[1].R.g.nodes # heap["Q"].nodes
    /\ ~(heap["Q"].edges \subseteq mc.graph_list[1].R.g.edges)
    /\ heap[mc.P].nodes = heap["Q"].nodes

\* C10: Path(...) succeeds only when every (node, next node, key) of it is
\* an edge of the snapshot.
C10_PathOnlyOverEdges ==
    (pc = "done" /\ op.name = "Path" /\ ret.kind = "path") =>
        \A i \in 1 .. Len(ret.path.node_array) - 1 :
           ret.path.edge_keys[i] \in
              KeysBetween(heap["Q"], ret.path.node_array[i],
                          ret.path.node_array[i + 1])

\* C11: purify_reduce and swap_reduce raise AssertionError whenever a
\* threshold is given that is not a positive integer (zero, negative, or not
\* an integer), and they do so before any graph is copied or changed.
C11_BadThresholdAsserts ==
    /\ [](( /\ op.name \in {"purify_reduce", "swap_reduce"}
            /\ op.th.given
            /\ ~(op.th.isint /\ op.th.val > 0) )
          => ( /\ pc = "raised"
               /\ ret.exc = "AssertionError"
               /\ cref = "Q"
               /\ heap["C"] = EmptyGraph ))
    /\ [][(pc = "idle" /\ pc' = "raised") => (heap' = heap)]_vars

\* a reduction was called with a positive threshold that is not an integer
\* and has raised
C11_Witness ==
    /\ pc = "raised"
    /\ op.name = "swap_reduce"
    /\ op.th.given /\ ~op.th.isint /\ op.th.val > 0
    /\ ret.exc = "AssertionError"

\* C12: monte_method raises AssertionError, before any trial, whenever a
\* bound of the given percolation_range is outside [0, 1]; so no trial is
\* percolated with a probability outside [0, 1].
C12_RangeValidated ==
    /\ ( /\ op.name = "monte_method"
         /\ op.range.given
         /\ ~( /\ 0 <= op.range.lo /\ op.range.lo <= ProbDen
               /\ 0 <= op.range.hi /\ op.range.hi <= ProbDen ) )
       => (pc = "raised" /\ ret.exc = "AssertionError" /\ mc = NoMC)
    /\ pc = "mc_check" =>
          LET p == mc.prob_list[mc.index]
          IN  0 <= p.num /\ p.num <= p.den

\* the table monte_method has returned, and the range it was asked for
\* (NoRange carries the default bounds 0 and 1)
TableReturned == pc = "done" /\ op.name = "monte_method" /\ ret.kind = "table"

\* fraction a equals the lo-to-hi grid's point i of n, in units of 1/ProbDen
IsGridPoint(a, lo, hi, n, i) ==
    IF n = 1 THEN a.num * ProbDen = lo * a.den
    ELSE a.num * (ProbDen * (n - 1))
            = (lo * (n - 1) + (i - 1) * (hi - lo)) * a.den

\* fraction a <= fraction b (denominators positive)
FracLeq(a, b) == a.num * b.den <= b.num * a.den

\* C13 as stated: the table has num_steps rows, row i holds the grid's i-th
\* probability, the p column is non-decreasing and runs from the lower bound
\* to the upper bound of the range.
C13_GridSpansRange ==
    TableReturned =>
        LET n == mc.num_steps
            lo == op.range.lo
            hi == op.range.hi
        IN  /\ Len(mc.main) = n
            /\ \A i \in 1 .. n : IsGridPoint(mc.main[i].p, lo, hi, n, i)
            /\ \A i \in 1 .. n - 1 : FracLeq(mc.main[i].p, mc.main[i + 1].p)
            /\ mc.main[1].p.num * ProbDen = lo * mc.main[1].p.den
            /\ mc.main[n].p.num * ProbDen = hi * mc.main[n].p.den

\* C13 amended: the table has num_steps rows and row i holds the grid's i-th
\* probability; the first row is the lower bound; the last row is the upper
\* bound when num_steps >= 2 (a single row holds the lower bound); the p
\* column is non-decreasing when lower <= upper and non-increasing when
\* lower >= upper.
C13_GridRows ==
    TableReturned =>
        LET n == mc.num_steps
            lo == op.range.lo
            hi == op.range.hi
        IN  /\ Len(mc.main) = n
            /\ \A i \in 1 .. n : IsGridPoint(mc.main[i].p, lo, hi, n, i)
            /\ mc.main[1].p.num * ProbDen = lo * mc.main[1].p.den
            /\ n >= 2 => mc.main[n].p.num * ProbDen = hi * mc.main[n].p.den
            /\ lo <= hi =>
                  \A i \in 1 .. n - 1 :
                     FracLeq(mc.main[i].p, mc.main[i + 1].p)
            /\ lo >= hi =>
                  \A i \in 1 .. n - 1 :
                     FracLeq(mc.main[i + 1].p, mc.main[i].p)

\* a table of several rows over a given rising range has been returned
C13_Witness ==
    /\ TableReturned
    /\ mc.num_steps >= 2
    /\ op.range.given /\ op.range.lo = 1 /\ op.range.hi = ProbDen
    /\ \A i \in DOMAIN mc.main : mc.main[i].filled

\* C14: a trial percolated with prob = 0 has lost no node, and a trial
\* percolated with prob = 1 has lost every node that is in no selected pair,
\* whatever the random draws were.
C14_ProbZeroAndOne ==
    pc = "mc_check" =>
        LET p == mc.prob_list[mc.index]
            inpairs == UNION {Range(mc.pairs[i]) : i \in DOMAIN mc.pairs}
        IN  /\ p.num = 0 => heap[mc.P] = heap["Q"]
            /\ p.num = p.den => heap[mc.P].nodes \subseteq inpairs

\* after the trials at prob = 0, a trial at prob = 1 has removed nodes
C14_Witness ==
    /\ pc = "mc_check"
    /\ mc.index = 2
    /\ mc.main[1].filled
    /\ mc.main[1].p.num = 0
    /\ mc.prob_list[2].num = mc.prob_list[2].den
    /\ heap[mc.P].nodes # heap["Q"].nodes

\* the edges the returned graph has beyond those the reduction left of its
\* input
NewEdges == heap[ret.obj].edges \ (heap[arg].edges \ Gone(heap[arg]))

\* add_x = forward(x), and x = inverse(add_x) to the resolution of the
\* additive level, for every dimension x of cv that has both
Consistent(cv) ==
    \A k \in DOMAIN AddOf :
        (k \in DOMAIN cv /\ AddOf[k] \in DOMAIN cv) =>
            /\ cv[AddOf[k]] = Forward(cv[k])
            /\ Inverse(cv[AddOf[k]]) <= cv[k]
            /\ cv[k] < 2 * Inverse(cv[AddOf[k]])

\* C15: every cost vector the core produces (the vector of a constructed
\* Path, the vectors purify_reduce and swap_reduce record from
\* get_cost_vector and swap_path, the vector of the edge purify_reduce
\* adds) has add_x = forward(x) and x = inverse(add_x) for every dimension
\* x of which it has both.
C15_AdditivePairsConsistent ==
    /\ (pc = "done" /\ ret.kind = "path") => Consistent(ret.path.cost_vector)
    /\ pc \in {"purify_loop", "swap_loop"} =>
          \A i \in DOMAIN cv_list : Consistent(cv_list[i])
    /\ PurifyReturned => \A x \in NewEdges : Consistent(x.cv)

\* the Swapper nodes of a node sequence with a Ground node at an earlier and
\* a Ground node at a later position
ValidSwappers(array) ==
    {array[i] : i \in {j \in DOMAIN array :
        /\ NodeType[array[j]] = "Swapper"
        /\ \E a \in 1 .. j - 1 : NodeType[array[a]] = "Ground"
        /\ \E b \in j + 1 .. Len(array) : NodeType[array[b]] = "Ground"}}

\* the product of swap_prob over a set of swappers (1 for the empty set)
RECURSIVE SwapFactor(_)
SwapFactor(S) ==
    IF S = {} THEN One
    ELSE LET n == CHOOSE x \in S : TRUE
         IN  Mul(SwapProb(n), SwapFactor(S \ {n}))

\* C16: the vector swap_path returns is the path's cost vector with only e
\* changed: e is multiplied by the product of swap_prob over exactly the
\* Swapper nodes of the sequence that have a Ground somewhere before and a
\* Ground somewhere after them, each counted once (factor 1, the vector
\* unchanged, when there is none).
C16_SwapFactorOverValidSwappers ==
    (pc = "swap_loop" /\ op.name = "swap_reduce") =>
        \A i \in DOMAIN cv_list :
            LET cv == PathCost(heap[arg], extracted[i])
                S == ValidSwappers(extracted[i].node_array)
            IN  cv_list[i] = [cv EXCEPT !["e"] = Mul(@, SwapFactor(S))]

\* the measurement penalty of k paths: prob * prob for every path but one
RECURSIVE Penalty(_)
Penalty(k) ==
    IF k <= 1 THEN One ELSE Mul(Mul(MeasureProb, MeasureProb), Penalty(k - 1))

CopyAfter(n) ==
    [heap[arg] EXCEPT !.edges =
        @ \ UNION {PathEdges(heap[arg], extracted[j]) : j \in 1 .. n}]

\* the fidelities of the extracted paths combined from the left, the first
\* n of them
RECURSIVE FoldLeft(_, _)
FoldLeft(fs, n) ==
    IF n = 1 THEN fs[1] ELSE FidTransform(FoldLeft(fs, n - 1), fs[n])

RECURSIVE SumOver(_, _)
SumOver(a, n) ==
    IF n = 0 THEN 0
    ELSE LET cv == PathCost(heap[arg], extracted[n])
         IN  SumOver(a, n - 1) + (IF a \in DOMAIN cv THEN cv[a] ELSE 0)

\* C19: for every additive dimension add_x other than add_e and add_f that
\* an extracted path's cost vector has, the edge purify_reduce adds carries
\* add_x = the sum of the extracted paths' add_x, and x = the inverse
\* conversion applied to that sum.
C19_OtherDimensionsSummed ==
    PurifyReturned =>
        \A a \in AddDims \ {"add_e", "add_f"} :
            (\E i \in DOMAIN extracted :
                a \in DOMAIN PathCost(heap[arg], extracted[i]))
            => \A x \in NewEdges :
                  /\ a \in DOMAIN x.cv
                  /\ x.cv[a] = SumOver(a, Len(extracted))
                  /\ PlainOf[a] \in DOMAIN x.cv
                  /\ x.cv[PlainOf[a]] = Inverse(SumOver(a, Len(extracted)))

\* the keys Path(...) was called with (edge_keys=None: 0 for every step)
CalledKeys ==
    IF op.keys.given THEN op.keys.val
    ELSE [i \in 1 .. Len(op.array) - 1 |-> 0]

\* Path(...) was called over nodes and (node, next node, key) edges that are
\* all in the snapshot
CalledOverEdges ==
    /\ op.name = "Path"
    /\ pc \in {"done", "raised"}
    /\ Range(op.array) \subseteq heap["Q"].nodes
    /\ \A i \in 1 .. Len(op.array) - 1 :
          CalledKeys[i] \in KeysBetween(heap["Q"], op.array[i], op.array[i + 1])

\* the cost vectors of the edges, then of the nodes, of the path called for
CalledElements ==
    [i \in 1 .. Len(op.array) - 1 |->
        (CHOOSE x \in heap["Q"].edges :
            /\ x.ends = {op.array[i], op.array[i + 1]}
            /\ x.key = CalledKeys[i]).cv]
    \o [i \in 1 .. Len(op.array) |-> NodeCosts(op.array[i])]

\* dimension k summed over the elements that carry it
DimSum(elems, k) ==
    SeqSum([i \in DOMAIN elems |->
               IF k \in DOMAIN elems[i] THEN elems[i][k] ELSE 0])

\* C20: for a path over edges of the snapshot, get_cost_vector raises
\* nothing and returns a vector whose dimensions are those of all the edges
\* and nodes of the path, together with the plain x of every add_x among
\* them; every add_x, and every x without add_x, is the sum over the
\* elements that carry it; and every x with add_x is inverse(add_x), also
\* when no element carries x.
C20_UnionSumAndInverse ==
    CalledOverEdges =>
        LET elems == CalledElements
            dims == UNION {DOMAIN elems[i] : i \in DOMAIN elems}
            cv == ret.path.cost_vector
        IN  /\ pc = "done" /\ ret.kind = "path"
            /\ DOMAIN cv = dims \cup {PlainOf[a] : a \in dims \cap AddDims}
            /\ \A k \in DOMAIN cv :
                  IF k \in AddDims THEN cv[k] = DimSum(elems, k)
                  ELSE IF AddOf[k] \in dims
                  THEN cv[k] = Inverse(DimSum(elems, AddOf[k]))
                  ELSE cv[k] = DimSum(elems, k)

\* C21: remove_edges removes exactly one edge for every consecutive node
\* pair of the path, the one with the path's key for that pair, raising
\* nothing; every node and every other edge (parallel edges of other keys
\* too) stays; and the path's node sequence, edge keys and stored
\* cost_vector are as they were at construction. In the reductions the
\* working copy is the input less exactly the edges of the extracted paths.
C21_RemoveEdgesFrame ==
    /\ ( /\ pc = "done"
         /\ op.name = "remove_edges"
         /\ PathInit(heap["Q"], op.array, op.keys).exc = "ok" )
       => LET Q == heap["Q"]
              C == heap[ret.obj]
              p == PathInit(Q, op.array, op.keys)
          IN  /\ ret.exc = "ok"
              /\ C.nodes = Q.nodes
              /\ C.edges = Q.edges \ PathEdges(Q, p)
              /\ Cardinality(Q.edges \ C.edges) = Len(p.node_array) - 1
              /\ ret.path = p
    /\ pc \in {"purify_loop", "swap_loop"} =>
          /\ heap[cref].nodes = heap[arg].nodes
          /\ heap[cref].edges = heap[arg].edges \ Gone(heap[arg])

\* monte_method is running (it has neither returned nor raised)
MonteRunning == op.name = "monte_method" /\ pc \notin {"done", "raised"}

\* C22: monte_method takes every grid point through percolating, reducing,
\* scored, aggregated in that order. Within a trial the percolation comes
\* before the connectivity check, and the reduction only after the check
\* found every pair connected; a trial is scored only after it was reduced
\* or found not connected, and only when all num_iters trials of the point
\* are made; the point's mean and standard error are written only when all
\* num_iters trials are scored; and the points are taken in grid order, the
\* rows before the point in hand written, the others not.
C22_PhasesInOrder ==
    /\ [](MonteRunning =>
            /\ \A i \in DOMAIN mc.main : mc.main[i].filled <=> i < mc.index
            /\ mc.index <= mc.num_steps
            /\ Len(mc.minor) <= Len(mc.graph_list)
            /\ pc = "mc_percolate" =>
                  mc.trials = Len(mc.graph_list) /\ mc.minor = <<>>
            /\ pc \in {"mc_check", "purify_loop", "swap_loop"} =>
                  mc.trials = Len(mc.graph_list) + 1 /\ mc.minor = <<>>
            /\ pc \in {"purify_loop", "swap_loop"} =>
                  /\ arg = mc.P
                  /\ \A i \in DOMAIN mc.pairs :
                        HasPath(heap[arg], mc.pairs[i][1], mc.pairs[i][2])
                           = "True"
            /\ pc \in {"mc_score", "mc_aggregate"} =>
                  /\ mc.trials = mc.num_iters
                  /\ Len(mc.graph_list) = mc.num_iters
            /\ pc = "mc_score" => Len(mc.minor) < mc.num_iters
            /\ pc = "mc_aggregate" => Len(mc.minor) = mc.num_iters)
    /\ [][MonteRunning =>
            /\ (pc = "mc_percolate") => (pc' = "mc_check")
            /\ (pc = "mc_check") =>
                  (pc' \in {"purify_loop", "swap_loop", "mc_percolate",
                            "mc_score", "raised"})
            /\ (pc \in {"purify_loop", "swap_loop"}) =>
                  (pc' \in {pc, "mc_percolate", "mc_score", "raised"})
            /\ (pc = "mc_score") =>
                  (pc' \in {"mc_score", "mc_aggregate", "raised"})
            /\ (pc = "mc_aggregate") => (pc' \in {"mc_percolate", "done"})
            /\ (mc'.main # mc.main \/ mc'.index # mc.index) =>
                  /\ pc = "mc_aggregate"
                  /\ mc'.index = mc.index + 1
                  /\ mc'.main[mc.index].filled
                  /\ \A i \in DOMAIN mc.main :
                        i # mc.index => mc'.main[i] = mc.main[i]
      ]_vars

\* the second grid point is being scored, one of its two trials already
\* scored, the first point's row written
C22_Witness ==
    /\ pc = "mc_score"
    /\ op.name = "monte_method"
    /\ mc.index = 2
    /\ mc.num_iters = 2
    /\ Len(mc.minor) = 1
    /\ mc.main[1].filled
    /\ ~mc.main[2].filled

InLoop == pc \in {"purify_loop", "swap_loop"}

\* C23: the extraction loops of purify_reduce and swap_reduce come to an
\* end for every head and tail of the snapshot, head = tail too, with or
\* without a threshold: every iteration removes at least one edge from the
\* working copy, so there are never more iterations than the snapshot has
\* edges, and a loop that was entered is left.
C23_LoopsTerminate ==
    /\ [][(InLoop /\ path_counter' = path_counter + 1) =>
            (Cardinality(heap'[cref].edges) < Cardinality(heap[cref].edges))
        ]_vars
    /\ [](InLoop => path_counter <= Cardinality(heap[arg].edges))
    /\ (InLoop ~> ~InLoop)

\* C24: whenever reduce_graph hands back a reduced graph and not the
\* sentinel, every selected pair, the later ones as much as the first that
\* served as head and tail, still has a path between its two nodes in the
\* reduced graph, so the scoring step finds a best path for every pair.
C24_PairsStayConnected ==
    \A k \in DOMAIN mc.graph_list :
       LET item == mc.graph_list[k]
       IN  ~item.R.none =>
              \A i \in DOMAIN item.pairs :
                 HasPath(item.R.g, item.pairs[i][1], item.pairs[i][2]) = "True"

====
